---------------------------- MODULE Spec2Model ----------------------------
(***************************************************************************)
(* A model of MyTinySTL's allocator<T> (allocator.h) and pair<Ty1,Ty2>     *)
(* with its helpers swap and make_pair (util.h).                           *)
(*                                                                         *)
(* Four state machines share the module:                                   *)
(*   SpecAlloc  a client calling allocator<T>::allocate / deallocate over  *)
(*              a system heap (::operator new / ::operator delete);        *)
(*   SpecPair   two pair objects in memory and the operations on them      *)
(*              (operator=, swap, operator<, operator==);                  *)
(*   SpecMake   make_pair and the caller's variables it is given;          *)
(*   SpecCtor   the constructor templates of pair and the enable_if        *)
(*              conditions that admit them at a call site.                 *)
(***************************************************************************)
EXTENDS Integers, FiniteSets, Sequences, TLC

VARIABLES
    \* ---- allocator.h ----
    tsize,      \* sizeof(T) of the instantiated allocator<T>
    live,       \* blocks obtained from ::operator new and not yet released
    held,       \* non-null handles the caller received and has not yet deallocated
    badFree,    \* ::operator delete was handed a block that was not live
    last,       \* what the last allocator call did
    \* ---- util.h: pair objects ----
    policy,     \* what a move leaves in its source, for the element type in use
    mem,        \* the elements of the pair objects: mem[<<p, "first">>], ...
    plast,      \* what the last pair operation did
    \* ---- util.h: make_pair ----
    cells,      \* the caller's variables x and y
    made,       \* the pair make_pair returned
    argv,       \* the values of make_pair's arguments when it was called
    \* ---- util.h: pair's constructors ----
    ty,         \* what Ty1 and Ty2 can be built from
    call,       \* the construction being compiled
    cands       \* the constructor templates that take part in its overload set

allocVars == <<tsize, live, held, badFree, last>>
pairVars == <<policy, mem, plast>>
makeVars == <<cells, made, argv>>
ctorVars == <<ty, call, cands>>

vars == <<tsize, live, held, badFree, last, policy, mem, plast,
          cells, made, argv, ty, call, cands>>

----------------------------------------------------------------------------
(* Bounds of the model *)

\* size_type is modelled SizeBits wide: arithmetic is modulo 2^SizeBits
SizeBits == 3
\* the largest element count a caller asks for
MaxCount == 4
\* the largest sizeof(T)
MaxSizeof == 3
\* the number of distinct block addresses of the system heap
NumAddr == 3

SizeMod == 2 ^ SizeBits
Addr == 1 .. NumAddr
\* nullptr
NULL == 0
\* the outcome of ::operator new that throws std::bad_alloc
THROW == -1

----------------------------------------------------------------------------
(* allocator.h *)

\* ::operator new(bytes) on a heap whose live blocks are lv: a block that is
\* not live, or std::bad_alloc
OperatorNew(lv, bytes) == (Addr \ lv) \cup {THROW}

\* ::operator delete(ptr): a null pointer is ignored, a live block is
\* released, anything else is a double (or wild) free
OperatorDelete(hp, ptr) ==
    IF ptr = NULL THEN hp
    ELSE [lv |-> hp.lv \ {ptr}, bad |-> hp.bad \/ ptr \notin hp.lv]

RECURSIVE DeleteAll(_, _)
DeleteAll(hp, ptrs) ==
    IF ptrs = <<>> THEN hp
    ELSE DeleteAll(OperatorDelete(hp, Head(ptrs)), Tail(ptrs))

\* allocator<T>::allocate(): the requests made to ::operator new
allocate(sz) == <<sz>>

\* allocator<T>::allocate(n) without its n == 0 test
allocate_n_unguarded(sz, n) == <<(n * sz) % SizeMod>>

\* allocator<T>::allocate(n): the byte counts requested from ::operator new
\* (none when n == 0, and then nullptr is returned)
allocate_n(sz, n) ==
    IF n = 0 THEN <<>> ELSE <<(n * sz) % SizeMod>>

\* allocator<T>::deallocate(ptr) without its null test
deallocate_unguarded(ptr) == <<ptr>>

\* allocator<T>::deallocate(ptr): the pointers passed to ::operator delete
deallocate(ptr) ==
    IF ptr = NULL THEN <<>> ELSE <<ptr>>

\* allocator<T>::deallocate(ptr, n) that forgets to release the block
deallocate_n_leak(ptr, n) == <<>>

\* allocator<T>::deallocate(ptr, n): the pointers passed to ::operator delete;
\* the count is ignored
deallocate_n(ptr, n) ==
    IF ptr = NULL THEN <<>> ELSE <<ptr>>

NoCall == [op |-> "none", n |-> 0, ptr |-> NULL, bytes |-> 0,
           news |-> 0, dels |-> 0, threw |-> FALSE]

\* no allocator is in use
AllocIdle ==
    /\ tsize = 1
    /\ live = {}
    /\ held = {}
    /\ badFree = FALSE
    /\ last = NoCall

\* no pair object is in use
PairIdle ==
    /\ policy = [steals |-> FALSE, leaves |-> 0]
    /\ mem = <<>>
    /\ plast = <<>>

\* make_pair has not been called
MakeIdle ==
    /\ cells = <<>>
    /\ made = <<>>
    /\ argv = <<>>

\* no pair is being constructed
CtorIdle ==
    /\ ty = <<>>
    /\ call = <<>>
    /\ cands = {}

InitAlloc ==
    /\ tsize \in 1 .. MaxSizeof
    /\ live = {}
    /\ held = {}
    /\ badFree = FALSE
    /\ last = NoCall
    /\ PairIdle
    /\ MakeIdle
    /\ CtorIdle

\* the common tail of allocate() and allocate(n): the requests reqs go to
\* ::operator new, whose result (or exception) goes back to the caller
DoAllocate(opname, n, reqs) ==
    IF reqs = <<>>
    THEN /\ last' = [op |-> opname, n |-> n, ptr |-> NULL, bytes |-> 0,
                     news |-> 0, dels |-> 0, threw |-> FALSE]
         /\ UNCHANGED <<tsize, live, held, badFree, pairVars, makeVars, ctorVars>>
    ELSE \E r \in OperatorNew(live, reqs[1]) :
           IF r = THROW
           THEN /\ last' = [op |-> opname, n |-> n, ptr |-> NULL,
                            bytes |-> reqs[1], news |-> Len(reqs), dels |-> 0,
                            threw |-> TRUE]
                /\ UNCHANGED <<tsize, live, held, badFree, pairVars, makeVars, ctorVars>>
           ELSE /\ live' = live \cup {r}
                /\ held' = held \cup {r}
                /\ last' = [op |-> opname, n |-> n, ptr |-> r,
                            bytes |-> reqs[1], news |-> Len(reqs), dels |-> 0,
                            threw |-> FALSE]
                /\ UNCHANGED <<tsize, badFree, pairVars, makeVars, ctorVars>>

\* the common tail of deallocate(ptr) and deallocate(ptr, n)
DoDeallocate(opname, ptr, n, dels) ==
    LET hp == DeleteAll([lv |-> live, bad |-> badFree], dels) IN
    /\ live' = hp.lv
    /\ badFree' = hp.bad
    /\ held' = held \ {ptr}
    /\ last' = [op |-> opname, n |-> n, ptr |-> ptr, bytes |-> 0,
                news |-> 0, dels |-> Len(dels), threw |-> FALSE]
    /\ UNCHANGED <<tsize, pairVars, makeVars, ctorVars>>

\* T* p = allocator<T>::allocate();
Allocate == DoAllocate("allocate", 1, allocate(tsize))

\* T* p = allocator<T>::allocate(n);
AllocateN == \E n \in 0 .. MaxCount : DoAllocate("allocate_n", n, allocate_n(tsize, n))

\* allocator<T>::deallocate(ptr); ptr is null or a handle the caller holds
Deallocate ==
    \E ptr \in held \cup {NULL} :
        DoDeallocate("deallocate", ptr, 1, deallocate(ptr))

\* allocator<T>::deallocate(ptr, n);
DeallocateN ==
    \E ptr \in held \cup {NULL}, n \in 0 .. MaxCount :
        DoDeallocate("deallocate_n", ptr, n, deallocate_n(ptr, n))

NextAlloc == Allocate \/ AllocateN \/ Deallocate \/ DeallocateN

SpecAlloc == InitAlloc /\ [][NextAlloc]_vars

----------------------------------------------------------------------------
(* Claims about allocator.h, checked under SpecAlloc *)

\* C3: when every handle returned by allocate is deallocated exactly once,
\* every block obtained from ::operator new is released exactly once: the
\* blocks still live are exactly the handles the caller has not yet given
\* back, and ::operator delete never sees a block that is not live; so once
\* the caller holds no handle, no allocation is outstanding.
C3_AllocDeallocBalanced ==
    /\ ~badFree
    /\ live = held
    /\ (held = {} => live = {})

\* a block came from allocate(n), n >= 1, went back through deallocate(ptr, n),
\* and nothing is outstanding
C3_Witness ==
    /\ last.op = "deallocate_n"
    /\ last.ptr # NULL
    /\ last.n >= 1
    /\ last.dels = 1
    /\ held = {}
    /\ live = {}

\* C4: allocate(0) returns the null handle and makes no call to ::operator
\* new (so it cannot throw either), whatever was allocated before.
C4_AllocateZeroIsNull ==
    (last.op = "allocate_n" /\ last.n = 0) =>
        (last.ptr = NULL /\ last.news = 0 /\ ~last.threw)

\* allocate(0) was called while blocks were outstanding
C4_Witness ==
    /\ last.op = "allocate_n"
    /\ last.n = 0
    /\ last.ptr = NULL
    /\ live # {}

\* C5: deallocate(nullptr) and deallocate(nullptr, n) make no call to
\* ::operator delete, report nothing, and leave the outstanding allocations
\* as they were.
C5_DeallocateNullIsNoop ==
    [][(last'.op \in {"deallocate", "deallocate_n"} /\ last'.ptr = NULL) =>
          /\ last'.dels = 0
          /\ ~last'.threw
          /\ live' = live
          /\ held' = held
          /\ badFree' = badFree]_vars

\* deallocate(nullptr, n) with n > 0 was called while blocks were outstanding
C5_Witness ==
    /\ last.op = "deallocate_n"
    /\ last.ptr = NULL
    /\ last.n > 0
    /\ live # {}

\* C10: a successful allocate(n), n >= 1, asked ::operator new for at least
\* n * sizeof(T) bytes.
C10_BlockHoldsNObjects ==
    (last.op = "allocate_n" /\ last.n >= 1 /\ ~last.threw) =>
        last.bytes >= last.n * tsize

----------------------------------------------------------------------------
(* util.h: pair objects, operator=, swap, operator== and operator< *)

\* the largest element value; element values are 0 .. MaxVal
MaxVal == 2
Val == 0 .. MaxVal
\* the two pair objects an operation is applied to; both operands of an
\* operation may be the same object
PairId == {"p", "q"}
Loc == PairId \X {"first", "second"}

\* What a move leaves in its source depends on the element type: the source
\* keeps its value when the type's move is a copy (int), or is left in the
\* type's moved-from state, some value u (an emptied string).
KeepsValue == [steals |-> FALSE, leaves |-> 0]
Policies == {KeepsValue} \cup {[steals |-> TRUE, leaves |-> u] : u \in Val}

\* the source of a move, after the move
MovedFrom(pol, m, src) ==
    IF pol.steals THEN [m EXCEPT ![src] = pol.leaves] ELSE m

\* dst = mystl::move(src) on two elements: Ty::operator=(Ty&&); st.ops counts
\* the element operations performed
ElemMoveAssign(pol, st, dst, src) ==
    [m |-> MovedFrom(pol, [st.m EXCEPT ![dst] = st.m[src]], src),
     ops |-> st.ops + 1]

\* dst = src on two elements: Ty::operator=(const Ty&)
ElemCopyAssign(st, dst, src) ==
    [m |-> [st.m EXCEPT ![dst] = st.m[src]], ops |-> st.ops + 1]

\* mystl::swap(lhs, rhs) on two elements, through a temporary tmp:
\*   auto tmp(move(lhs)); lhs = move(rhs); rhs = move(tmp);
swap(pol, st, lhs, rhs) ==
    LET tmp == st.m[lhs]
        s1 == [m |-> MovedFrom(pol, st.m, lhs), ops |-> st.ops + 1]
        s2 == ElemMoveAssign(pol, s1, lhs, rhs)
    IN  [m |-> [s2.m EXCEPT ![rhs] = tmp], ops |-> s2.ops + 1]

\* pair::operator=(const pair& rhs)
pair_copy_assign(pol, st, this, rhs) ==
    IF this # rhs
    THEN ElemCopyAssign(ElemCopyAssign(st, <<this, "first">>, <<rhs, "first">>),
                        <<this, "second">>, <<rhs, "second">>)
    ELSE st

\* pair::operator=(pair&&) without its identity test
pair_move_assign_unguarded(pol, st, this, rhs) ==
    ElemMoveAssign(pol,
        ElemMoveAssign(pol, st, <<this, "first">>, <<rhs, "first">>),
        <<this, "second">>, <<rhs, "second">>)

\* pair::operator=(pair&& rhs)
pair_move_assign(pol, st, this, rhs) ==
    IF this # rhs
    THEN ElemMoveAssign(pol,
             ElemMoveAssign(pol, st, <<this, "first">>, <<rhs, "first">>),
             <<this, "second">>, <<rhs, "second">>)
    ELSE st

\* pair::swap that exchanges only the first elements
pair_swap_first_only(pol, st, this, other) ==
    IF this # other
    THEN swap(pol, st, <<this, "first">>, <<other, "first">>)
    ELSE st

\* pair::swap(pair& other)
pair_swap(pol, st, this, other) ==
    IF this # other
    THEN swap(pol, swap(pol, st, <<this, "first">>, <<other, "first">>),
              <<this, "second">>, <<other, "second">>)
    ELSE st

\* mystl::swap(pair& lhs, pair& rhs): lhs.swap(rhs)
swap_pairs(pol, st, lhs, rhs) == pair_swap(pol, st, lhs, rhs)

\* operator==(const pair& lhs, const pair& rhs)
PairEq(m, lhs, rhs) ==
    m[<<lhs, "first">>] = m[<<rhs, "first">>]
        /\ m[<<lhs, "second">>] = m[<<rhs, "second">>]

\* operator< that lets the second elements decide whatever the first are
PairLessNoFirstEq(m, lhs, rhs) ==
    LET lt1 == m[<<lhs, "first">>] < m[<<rhs, "first">>] IN
    [res  |-> lt1 \/ m[<<lhs, "second">>] < m[<<rhs, "second">>],
     cmp2 |-> ~lt1]

\* operator<(const pair& lhs, const pair& rhs), evaluated left to right with
\* the short circuits of || and &&; cmp2 tells whether the second elements
\* were compared
PairLess(m, lhs, rhs) ==
    LET lt1 == m[<<lhs, "first">>] < m[<<rhs, "first">>]
        eq1 == m[<<lhs, "first">>] = m[<<rhs, "first">>]
    IN  IF lt1 THEN [res |-> TRUE, cmp2 |-> FALSE]
        ELSE IF ~eq1 THEN [res |-> FALSE, cmp2 |-> FALSE]
        ELSE [res |-> m[<<lhs, "second">>] < m[<<rhs, "second">>],
              cmp2 |-> TRUE]

NoPairOp == [op |-> "none", p |-> "p", q |-> "p", ops |-> 0,
             lt |-> FALSE, eq |-> FALSE, gt |-> FALSE, cmp2 |-> FALSE]

InitPair ==
    /\ policy \in Policies
    /\ mem \in [Loc -> Val]
    /\ plast = NoPairOp
    /\ AllocIdle
    /\ MakeIdle
    /\ CtorIdle

\* a mutating pair operation has run and left st
Mutated(opname, p, q, st) ==
    /\ mem' = st.m
    /\ plast' = [NoPairOp EXCEPT !.op = opname, !.p = p, !.q = q, !.ops = st.ops]
    /\ UNCHANGED <<policy, allocVars, makeVars, ctorVars>>

\* p = q;
CopyAssign ==
    \E p \in PairId, q \in PairId :
        Mutated("copy_assign", p, q,
                pair_copy_assign(policy, [m |-> mem, ops |-> 0], p, q))

\* p = mystl::move(q);
MoveAssign ==
    \E p \in PairId, q \in PairId :
        Mutated("move_assign", p, q,
                pair_move_assign(policy, [m |-> mem, ops |-> 0], p, q))

\* p.swap(q);
MemberSwap ==
    \E p \in PairId, q \in PairId :
        Mutated("swap", p, q, pair_swap(policy, [m |-> mem, ops |-> 0], p, q))

\* mystl::swap(p, q);
FreeSwap ==
    \E p \in PairId, q \in PairId :
        Mutated("swap_free", p, q, swap_pairs(policy, [m |-> mem, ops |-> 0], p, q))

\* p < q, p == q and q < p are evaluated
Compare ==
    \E p \in PairId, q \in PairId :
        /\ plast' = [op |-> "compare", p |-> p, q |-> q, ops |-> 0,
                     lt |-> PairLess(mem, p, q).res,
                     eq |-> PairEq(mem, p, q),
                     gt |-> PairLess(mem, q, p).res,
                     cmp2 |-> PairLess(mem, p, q).cmp2]
        /\ UNCHANGED <<policy, mem, allocVars, makeVars, ctorVars>>

NextPair == CopyAssign \/ MoveAssign \/ MemberSwap \/ FreeSwap \/ Compare

SpecPair == InitPair /\ [][NextPair]_vars

----------------------------------------------------------------------------
(* Claims about pair's operations, checked under SpecPair *)

First(m, p) == m[<<p, "first">>]
Second(m, p) == m[<<p, "second">>]

\* C6: operator< is the lexicographic order: a < b iff a.first < b.first, or
\* the firsts are equal and a.second < b.second; the second elements are
\* compared only when the firsts are equal; and exactly one of a < b, a == b,
\* b < a holds.
C6_LessIsLexicographic ==
    plast.op = "compare" =>
        LET a == plast.p
            b == plast.q
        IN  /\ plast.lt = (\/ First(mem, a) < First(mem, b)
                           \/ /\ First(mem, a) = First(mem, b)
                              /\ Second(mem, a) < Second(mem, b))
            /\ (plast.cmp2 => First(mem, a) = First(mem, b))
            /\ \/ plast.lt /\ ~plast.eq /\ ~plast.gt
               \/ ~plast.lt /\ plast.eq /\ ~plast.gt
               \/ ~plast.lt /\ ~plast.eq /\ plast.gt

\* two pairs with equal firsts were compared and the seconds decided a < b
C6_Witness ==
    /\ plast.op = "compare"
    /\ First(mem, plast.p) = First(mem, plast.q)
    /\ Second(mem, plast.p) < Second(mem, plast.q)
    /\ plast.lt
    /\ plast.cmp2

\* C7: a swap of p and q leaves p with q's former value and q with p's, and
\* swapping once more restores the values both had before the first swap.
C7_SwapIsInvolution ==
    [][plast'.op \in {"swap", "swap_free"} =>
          LET p == plast'.p
              q == plast'.q
          IN  /\ First(mem', p) = First(mem, q)
              /\ Second(mem', p) = Second(mem, q)
              /\ First(mem', q) = First(mem, p)
              /\ Second(mem', q) = Second(mem, p)
              /\ swap_pairs(policy, [m |-> mem', ops |-> 0], p, q).m = mem]_vars

\* two distinct pairs that differed in both elements were swapped, for an
\* element type whose move empties its source
C7_Witness ==
    /\ plast.op = "swap_free"
    /\ plast.p # plast.q
    /\ plast.ops > 0
    /\ policy.steals
    /\ First(mem, plast.p) # First(mem, plast.q)
    /\ Second(mem, plast.p) # Second(mem, plast.q)

\* C8: self-assignment (copy and move) and self-swap (member and free) leave
\* both elements as they were and perform no element operation at all.
C8_SelfOpsAreNoops ==
    [][(/\ plast'.op \in {"copy_assign", "move_assign", "swap", "swap_free"}
        /\ plast'.p = plast'.q) =>
          (mem' = mem /\ plast'.ops = 0)]_vars

\* a pair whose elements differ from the moved-from state was move-assigned
\* to itself
C8_Witness ==
    /\ plast.op = "move_assign"
    /\ plast.p = plast.q
    /\ policy.steals
    /\ First(mem, plast.p) # policy.leaves
    /\ Second(mem, plast.p) # policy.leaves

----------------------------------------------------------------------------
(* util.h: make_pair *)

\* the caller's named variables
CellId == {"x", "y"}

\* An argument expression of make_pair: a named variable of the caller (an
\* lvalue) or a temporary holding v (an rvalue).
ArgExpr ==
    {[lvalue |-> TRUE, cell |-> c, v |-> 0] : c \in CellId}
        \cup {[lvalue |-> FALSE, cell |-> "temporary", v |-> v] : v \in Val}

\* the value an argument expression has in the caller's memory cs
ArgValue(cs, a) == IF a.lvalue THEN cs[a.cell] ELSE a.v

\* Template argument deduction for the forwarding reference Ty&& of
\* make_pair(Ty1&& first, Ty2&& second): an lvalue of type X deduces X&, an
\* rvalue deduces X.
Deduce(a) == IF a.lvalue THEN "X&" ELSE "X"

\* The member of pair<Ty1, Ty2> initialised from forward<Ty>(a): declared of
\* type Ty, it is a reference bound to the caller's variable when Ty is X&,
\* and an object of its own built from the argument when Ty is X.
MemberInit(tp, cs, a) ==
    IF tp = "X&"
    THEN [ref |-> TRUE, cell |-> a.cell, v |-> 0]
    ELSE [ref |-> FALSE, cell |-> "member", v |-> ArgValue(cs, a)]

\* make_pair(first, second):
\*   return pair<Ty1, Ty2>(forward<Ty1>(first), forward<Ty2>(second));
make_pair(cs, a1, a2) ==
    [first  |-> MemberInit(Deduce(a1), cs, a1),
     second |-> MemberInit(Deduce(a2), cs, a2)]

\* reading p.first or p.second
Read(cs, member) == IF member.ref THEN cs[member.cell] ELSE member.v

NoMember == [ref |-> FALSE, cell |-> "none", v |-> 0]

InitMake ==
    /\ cells \in [CellId -> Val]
    /\ made = [first |-> NoMember, second |-> NoMember]
    /\ argv = <<>>
    /\ AllocIdle
    /\ PairIdle
    /\ CtorIdle

\* auto p = mystl::make_pair(a1, a2);
MakePair ==
    \E a1 \in ArgExpr, a2 \in ArgExpr :
        /\ made' = make_pair(cells, a1, a2)
        /\ argv' = <<ArgValue(cells, a1), ArgValue(cells, a2)>>
        /\ UNCHANGED <<cells, allocVars, pairVars, ctorVars>>

\* the caller assigns to one of its variables: x = v;
AssignVariable ==
    \E c \in CellId, v \in Val :
        /\ cells' = [cells EXCEPT ![c] = v]
        /\ UNCHANGED <<made, argv, allocVars, pairVars, ctorVars>>

NextMake == MakePair \/ AssignVariable

SpecMake == InitMake /\ [][NextMake]_vars

\* C9: the pair make_pair(x, y) returned holds its own copies: its first and
\* second are the values x and y had at the call, whatever the caller does to
\* its variables afterwards.
C9_MakePairOwnsItsValues ==
    argv # <<>> =>
        /\ Read(cells, made.first) = argv[1]
        /\ Read(cells, made.second) = argv[2]

----------------------------------------------------------------------------
(* util.h: the constructor templates of pair<Ty1, Ty2> and their enable_if *)

\* The value categories of an argument expression: a const lvalue or an rvalue.
Cat == {"clv", "rv"}

\* A template argument Other takes one of the forms "T", "const T&" and "T&&"
\* of a source type T.

\* the value category of std::declval<F>(), which the traits test with
DeclvalCat(form) == IF form = "const T&" THEN "clv" ELSE "rv"

\* Other&& after reference collapsing
AddRvalueRef(form) == IF form = "T" THEN "T&&" ELSE form

\* the Other deduced by a forwarding reference Other&& from an argument
DeducedForm(k) == IF k = "clv" THEN "const T&" ELSE "T"

\* What one element type Ty can be built from, for the type T of its source:
\*   dc       std::is_default_constructible<Ty>
\*   cc       std::is_copy_constructible<Ty>
\*   cci      std::is_convertible<const Ty&, Ty>
\*   same     T is Ty itself
\*   ctor[k]  std::is_constructible<Ty, F> for a form F of T of category k
\*   conv[k]  std::is_convertible<F, Ty>   for a form F of T of category k
\* An implicit conversion is also a direct initialisation, and when T is Ty
\* the traits about const Ty& are those about const T&.
SlotTypes ==
    {t \in [dc : BOOLEAN, cc : BOOLEAN, cci : BOOLEAN, same : BOOLEAN,
            ctor : [Cat -> BOOLEAN], conv : [Cat -> BOOLEAN]] :
        /\ t.cci => t.cc
        /\ \A k \in Cat : t.conv[k] => t.ctor[k]
        /\ t.same => (t.cc = t.ctor["clv"] /\ t.cci = t.conv["clv"])}

is_default_constructible(t) == t.dc
is_copy_constructible(t) == t.cc
is_convertible_from_self(t) == t.cci
is_constructible(t, form) == t.ctor[DeclvalCat(form)]
is_convertible(form, t) == t.conv[DeclvalCat(form)]

\* template <class Other1 = Ty1, class Other2 = Ty2, ...> constexpr pair()
EnableDefault(t1, t2) ==
    is_default_constructible(t1) /\ is_default_constructible(t2)

\* constexpr pair(const Ty1& a, const Ty2& b)
EnableSameImplicit(t1, t2) ==
    /\ is_copy_constructible(t1)
    /\ is_copy_constructible(t2)
    /\ is_convertible_from_self(t1)
    /\ is_convertible_from_self(t2)

\* the explicit same-type rule without its convertibility test
EnableSameExplicitAlways(t1, t2) ==
    is_copy_constructible(t1) /\ is_copy_constructible(t2)

\* explicit constexpr pair(const Ty1& a, const Ty2& b)
EnableSameExplicit(t1, t2) ==
    /\ is_copy_constructible(t1)
    /\ is_copy_constructible(t2)
    /\ (~is_convertible_from_self(t1) \/ ~is_convertible_from_self(t2))

\* constexpr pair(Other1&& a, Other2&& b)
EnableFwdImplicit(t1, t2, o1, o2) ==
    /\ is_constructible(t1, o1)
    /\ is_constructible(t2, o2)
    /\ is_convertible(AddRvalueRef(o1), t1)
    /\ is_convertible(AddRvalueRef(o2), t2)

\* the explicit forwarding rule with && written for ||
EnableFwdExplicitBoth(t1, t2, o1, o2) ==
    /\ is_constructible(t1, o1)
    /\ is_constructible(t2, o2)
    /\ (~is_convertible(o1, t1) /\ ~is_convertible(o2, t2))

\* explicit constexpr pair(Other1&& a, Other2&& b)
EnableFwdExplicit(t1, t2, o1, o2) ==
    /\ is_constructible(t1, o1)
    /\ is_constructible(t2, o2)
    /\ (~is_convertible(o1, t1) \/ ~is_convertible(o2, t2))

\* constexpr pair(const pair<Other1, Other2>& other)
EnableCRefImplicit(t1, t2) ==
    /\ is_constructible(t1, "const T&")
    /\ is_constructible(t2, "const T&")
    /\ is_convertible("const T&", t1)
    /\ is_convertible("const T&", t2)

\* explicit constexpr pair(const pair<Other1, Other2>& other)
EnableCRefExplicit(t1, t2) ==
    /\ is_constructible(t1, "const T&")
    /\ is_constructible(t2, "const T&")
    /\ (~is_convertible("const T&", t1) \/ ~is_convertible("const T&", t2))

\* constexpr pair(pair<Other1, Other2>&& other)
EnableRvImplicit(t1, t2) ==
    /\ is_constructible(t1, "T")
    /\ is_constructible(t2, "T")
    /\ is_convertible("T", t1)
    /\ is_convertible("T", t2)

\* explicit constexpr pair(pair<Other1, Other2>&& other)
EnableRvExplicit(t1, t2) ==
    /\ is_constructible(t1, "T")
    /\ is_constructible(t2, "T")
    /\ (~is_convertible("T", t1) \/ ~is_convertible("T", t2))

\* the constructor templates that carry an enable_if
Rules == {"default", "same_implicit", "same_explicit", "fwd_implicit",
          "fwd_explicit", "cref_implicit", "cref_explicit", "rv_implicit",
          "rv_explicit"}

\* the implicit/explicit family a rule belongs to
Family(r) ==
    CASE r = "default" -> "default"
      [] r \in {"same_implicit", "same_explicit"} -> "same"
      [] r \in {"fwd_implicit", "fwd_explicit"} -> "fwd"
      [] r \in {"cref_implicit", "cref_explicit"} -> "cref"
      [] r \in {"rv_implicit", "rv_explicit"} -> "rv"

\* Whether the parameters of rule r accept the arguments of call c: the
\* number of arguments, and the binding of each. const Ty& binds to an
\* argument of type Ty, or to a temporary converted implicitly from it;
\* Other&& binds to anything; const pair<O1,O2>& binds to an lvalue or an
\* rvalue pair; pair<O1,O2>&& to an rvalue pair only.
Accepts(r, t, c) ==
    CASE Family(r) = "default" -> c.shape = "no_args"
      [] Family(r) = "same" ->
            /\ c.shape = "two_args"
            /\ (t[1].same \/ t[1].conv[c.k1])
            /\ (t[2].same \/ t[2].conv[c.k2])
      [] Family(r) = "fwd" -> c.shape = "two_args"
      [] Family(r) = "cref" -> c.shape \in {"pair_cref", "pair_rvalue"}
      [] Family(r) = "rv" -> c.shape = "pair_rvalue"

\* the enable_if condition of rule r with the template arguments call c deduces
Enabled(r, t, c) ==
    CASE r = "default" -> EnableDefault(t[1], t[2])
      [] r = "same_implicit" -> EnableSameImplicit(t[1], t[2])
      [] r = "same_explicit" -> EnableSameExplicit(t[1], t[2])
      [] r = "fwd_implicit" ->
            EnableFwdImplicit(t[1], t[2], DeducedForm(c.k1), DeducedForm(c.k2))
      [] r = "fwd_explicit" ->
            EnableFwdExplicit(t[1], t[2], DeducedForm(c.k1), DeducedForm(c.k2))
      [] r = "cref_implicit" -> EnableCRefImplicit(t[1], t[2])
      [] r = "cref_explicit" -> EnableCRefExplicit(t[1], t[2])
      [] r = "rv_implicit" -> EnableRvImplicit(t[1], t[2])
      [] r = "rv_explicit" -> EnableRvExplicit(t[1], t[2])

\* the rules in the overload set of call c
Candidates(t, c) == {r \in Rules : Accepts(r, t, c) /\ Enabled(r, t, c)}

NoCtorCall == [shape |-> "none", k1 |-> "rv", k2 |-> "rv"]

InitCtor ==
    /\ ty \in SlotTypes \X SlotTypes
    /\ call = NoCtorCall
    /\ cands = {}
    /\ AllocIdle
    /\ PairIdle
    /\ MakeIdle

\* pair<Ty1, Ty2> p;
ConstructNoArgs ==
    /\ call' = [shape |-> "no_args", k1 |-> "rv", k2 |-> "rv"]
    /\ cands' = Candidates(ty, call')
    /\ UNCHANGED <<ty, allocVars, pairVars, makeVars>>

\* pair<Ty1, Ty2> p(a, b);
ConstructTwoArgs ==
    \E k1 \in Cat, k2 \in Cat :
        /\ call' = [shape |-> "two_args", k1 |-> k1, k2 |-> k2]
        /\ cands' = Candidates(ty, call')
        /\ UNCHANGED <<ty, allocVars, pairVars, makeVars>>

\* pair<Ty1, Ty2> p(other); with other a const pair<T1, T2>&
ConstructFromPairConstRef ==
    /\ call' = [shape |-> "pair_cref", k1 |-> "clv", k2 |-> "clv"]
    /\ cands' = Candidates(ty, call')
    /\ UNCHANGED <<ty, allocVars, pairVars, makeVars>>

\* pair<Ty1, Ty2> p(mystl::move(other)); with other a pair<T1, T2>
ConstructFromPairRvalue ==
    /\ call' = [shape |-> "pair_rvalue", k1 |-> "rv", k2 |-> "rv"]
    /\ cands' = Candidates(ty, call')
    /\ UNCHANGED <<ty, allocVars, pairVars, makeVars>>

NextCtor ==
    \/ ConstructNoArgs
    \/ ConstructTwoArgs
    \/ ConstructFromPairConstRef
    \/ ConstructFromPairRvalue

SpecCtor == InitCtor /\ [][NextCtor]_vars

----------------------------------------------------------------------------
(* Claims about pair's constructors, checked under SpecCtor *)

\* C1 as stated: a construction that compiles has exactly one enabled rule in
\* its overload set, so no call has two.
C1_ExactlyOneRuleEnabled ==
    (call.shape # "none" /\ cands # {}) => Cardinality(cands) = 1

\* C1, amended: at most one rule of each implicit/explicit family is enabled
\* for a call, so a call has at most two enabled rules, and two only as one
\* same-type with one forwarding rule (two arguments) or as one const-reference
\* with one rvalue cross-pair rule (an rvalue pair).
C1_AtMostOneRulePerFamily ==
    call.shape # "none" =>
        /\ \A r1 \in cands, r2 \in cands : Family(r1) = Family(r2) => r1 = r2
        /\ Cardinality(cands) <= 2
        /\ Cardinality(cands) = 2 =>
              \/ /\ call.shape = "two_args"
                 /\ {Family(r) : r \in cands} = {"same", "fwd"}
              \/ /\ call.shape = "pair_rvalue"
                 /\ {Family(r) : r \in cands} = {"cref", "rv"}

\* a two-argument call for which a same-type rule and a forwarding rule are
\* both enabled
C1_Witness ==
    /\ call.shape = "two_args"
    /\ "same_implicit" \in cands
    /\ "fwd_explicit" \in cands

\* the two source forms a call deduces for Other1 and Other2
CallForm1 == DeducedForm(call.k1)
CallForm2 == DeducedForm(call.k2)

\* an implicit/explicit pair of rules splits exactly: with both elements
\* constructible, the implicit rule is enabled iff both conversions are
\* implicit and the explicit rule iff one is not; with an element not
\* constructible, neither is enabled
ExactSplit(constructible, implicit, enImplicit, enExplicit) ==
    /\ constructible => /\ enImplicit = implicit
                        /\ enExplicit = ~implicit
                        /\ enImplicit # enExplicit
    /\ ~constructible => (~enImplicit /\ ~enExplicit)

\* C2: within each implicit/explicit pair of constructor rules (same-type,
\* forwarding, cross-pair by const reference, cross-pair by rvalue) the two
\* enablement conditions are exact complements under the shared
\* constructibility precondition.
C2_ImplicitExplicitComplement ==
    call.shape # "none" =>
        LET t1 == ty[1]
            t2 == ty[2]
        IN  /\ ExactSplit(t1.cc /\ t2.cc, t1.cci /\ t2.cci,
                          EnableSameImplicit(t1, t2), EnableSameExplicit(t1, t2))
            /\ ExactSplit(t1.ctor[call.k1] /\ t2.ctor[call.k2],
                          t1.conv[call.k1] /\ t2.conv[call.k2],
                          EnableFwdImplicit(t1, t2, CallForm1, CallForm2),
                          EnableFwdExplicit(t1, t2, CallForm1, CallForm2))
            /\ ExactSplit(t1.ctor["clv"] /\ t2.ctor["clv"],
                          t1.conv["clv"] /\ t2.conv["clv"],
                          EnableCRefImplicit(t1, t2), EnableCRefExplicit(t1, t2))
            /\ ExactSplit(t1.ctor["rv"] /\ t2.ctor["rv"],
                          t1.conv["rv"] /\ t2.conv["rv"],
                          EnableRvImplicit(t1, t2), EnableRvExplicit(t1, t2))

\* a two-argument call from a const lvalue and an rvalue, both elements
\* constructible, only the second conversion implicit: the explicit forwarding
\* rule is in the overload set and the implicit one is not
C2_Witness ==
    /\ call.shape = "two_args"
    /\ call.k1 = "clv"
    /\ call.k2 = "rv"
    /\ ty[1].ctor["clv"] /\ ~ty[1].conv["clv"]
    /\ ty[2].conv["rv"]
    /\ "fwd_explicit" \in cands
    /\ "fwd_implicit" \notin cands

============================================================================
